---- MODULE Spec2Model ----
(***************************************************************************)
(* A model of the VDEV keyboard-to-mouse driver (my_vdev.c / my_vdev.h):   *)
(* the scancode table, the two-slot key history and its shift policy, the  *)
(* interrupt handler (top half), the mouse tasklet (bottom half), the      *)
(* control write of the char device, and module bring-up and unload.       *)
(*                                                                         *)
(* Characters are their ASCII codes, scancodes are bytes 0..255.  The C   *)
(* arrays buf[2] and map[..] are functions over 0..1 and 0..3, so indices  *)
(* are the source's.                                                       *)
(***************************************************************************)
EXTENDS Integers, Sequences, FiniteSets, TLC

VARIABLES
  buf,       \* devs[0].buf : the two-slot key history (buf[0] previous, buf[1] current)
  map,       \* devs[0].map[0..3] : characters for UP, DOWN, LEFT, RIGHT
  spd,       \* devs[0].spd : movement speed
  sched,     \* TASKLET_STATE_SCHED of *mouse_tasklet: a run is pending
  pc,        \* position of module bring-up / unload: <<phase, step>>
  held,      \* log of the resources acquired so far, in acquisition order
  rel,       \* log of the resources released so far, in release order
  fault,     \* "none", or the kernel fault the last step raised
  op,        \* the handler that made the last step
  scancode,  \* the byte the last interrupt handler (or translate call) read
  wr,        \* the input of the last control write
  ret,       \* the value the last handler returned
  out,       \* the events the last tasklet run reported to mouse_dev
  hist,      \* history: the last two captured press scancodes, oldest first
  buf0,      \* history: the value of buf when the last handler was entered
  req,       \* history: the last MAP and the last SPD payload that were executed
  cnt,       \* history: numbers of presses, tasklet_schedule calls, runs, movements
  cpu,       \* per execution unit: where it is in kbd_interrupt_handler
  lock,      \* devs[0].lock : 0 when free, else the execution unit holding it
  tsk        \* the tasklet run in progress: where it is, and what it has read

vars == <<buf, map, spd, sched, pc, held, rel, fault, op, scancode, wr, ret, out,
          hist, buf0, req, cnt, cpu, lock, tsk>>

(***************************************************************************)
(* Program constants: the #defines of my_vdev.h, the default speed, and    *)
(* the kernel's IRQ_NONE and errno values the handlers return.             *)
(***************************************************************************)
SCANCODE_RELEASED_MASK == 128
SCANCODE_LALT_MASK == 56
CMD_MAP == 0
CMD_SPD == 1
BUF_SIZE == 64
DEFAULT_SPD == 10
IRQ_NONE == 0
EFAULT == 14
EINVAL == 22
ERANGE == 34

Arr2(a, b) == [i \in 0..1 |-> IF i = 0 THEN a ELSE b]
Arr4(a, b, c, d) == [i \in 0..3 |-> CASE i = 0 -> a [] i = 1 -> b [] i = 2 -> c [] OTHER -> d]

\* "1234567890", "qwertyuiop", "asdfghjkl", "zxcvbnm" as ASCII codes
row1 == <<49, 50, 51, 52, 53, 54, 55, 56, 57, 48>>
row2 == <<113, 119, 101, 114, 116, 121, 117, 105, 111, 112>>
row3 == <<97, 115, 100, 102, 103, 104, 106, 107, 108>>
row4 == <<122, 120, 99, 118, 98, 110, 109>>
CH_SPACE == 32
CH_NEWLINE == 10
CH_UNKNOWN == 63

(***************************************************************************)
(* scancode_to_ascii: scancode &= ~0x80, then the range chain.  *(row + n) *)
(* is the TLA+ element n + 1.                                              *)
(***************************************************************************)
scancode_to_ascii_keepbit(sc) ==
  IF sc >= 2 /\ sc <= 11 THEN row1[sc - 2 + 1]
  ELSE IF sc >= 16 /\ sc <= 25 THEN row2[sc - 16 + 1]
  ELSE IF sc >= 30 /\ sc <= 38 THEN row3[sc - 30 + 1]
  ELSE IF sc >= 44 /\ sc <= 50 THEN row4[sc - 44 + 1]
  ELSE IF sc = 57 THEN CH_SPACE
  ELSE IF sc = 28 THEN CH_NEWLINE
  ELSE CH_UNKNOWN

scancode_to_ascii(sc) ==
  LET s == IF sc >= SCANCODE_RELEASED_MASK THEN sc - SCANCODE_RELEASED_MASK ELSE sc
  IN  IF s >= 2 /\ s <= 11 THEN row1[s - 2 + 1]
      ELSE IF s >= 16 /\ s <= 25 THEN row2[s - 16 + 1]
      ELSE IF s >= 30 /\ s <= 38 THEN row3[s - 30 + 1]
      ELSE IF s >= 44 /\ s <= 50 THEN row4[s - 44 + 1]
      ELSE IF s = 57 THEN CH_SPACE
      ELSE IF s = 28 THEN CH_NEWLINE
      ELSE CH_UNKNOWN

is_key_pressed_always(sc) == TRUE

is_key_pressed_inverted(sc) == sc >= SCANCODE_RELEASED_MASK

is_key_pressed(sc) == sc < SCANCODE_RELEASED_MASK

(***************************************************************************)
(* Events reported to mouse_dev.                                           *)
(***************************************************************************)
input_report_rel(axis, value) == [type |-> "EV_REL", code |-> axis, value |-> value]
input_sync == [type |-> "EV_SYN", code |-> "SYN_REPORT", value |-> 0]

(***************************************************************************)
(* Bounds of the model.                                                    *)
(***************************************************************************)
\* bytes of slab memory behind the kmalloc'ed write buffer that are modelled;
\* the bytes after them read as NUL
TailLen == 2

\* Scancodes the keyboard controller delivers: presses of left-alt (0x38),
\* 'w' (0x11), 'u' (0x16), 'k' (0x25), and the release of left-alt (0xb8).
Scancodes == {56, 17, 22, 37, 184}

\* what an uninitialised byte of slab memory may hold: NUL, '5', 'x'
Garbage == {0, 53, 120}
Tails == [1..TailLen -> Garbage]

\* control payloads, as the bytes the caller passes with count = their length
\* (count >= 1: a write of no bytes is not modelled)
P_MAP_UJHK == <<48, 32, 117, 106, 104, 107>>      \* "0 ujhk"
P_SPD_50 == <<49, 32, 53, 48>>                    \* "1 50"
P_SPD_50_NUL == <<49, 32, 53, 48, 0>>             \* "1 50" and its NUL
P_MAP_UUUU == <<48, 32, 117, 117, 117, 117>>      \* "0 uuuu"
P_MAP_UUHK == <<48, 32, 117, 117, 104, 107>>      \* "0 uuhk"
P_MAP_SHORT == <<48, 32, 117>>                    \* "0 u"
P_MAP_1BYTE == <<48>>                             \* "0"
P_SPD_ALPHA == <<49, 32, 120>>                    \* "1 x"
P_SPD_ALPHA_NUL == <<49, 32, 120, 0>>             \* "1 x" and its NUL
P_SPD_SIGN == <<49, 32, 45>>                      \* "1 -"
P_SPD_NEG7_NUL == <<49, 32, 45, 55, 0>>           \* "1 -7" and its NUL
P_BADCMD == <<50, 32, 117, 106, 104, 107>>        \* "2 ujhk"
P_MAP_EDSFKL == <<48, 32, 101, 100, 115, 102, 107, 108>>   \* "0 edsfkl"
\* "1 4294967346" (2^32 + 50), "1 2147483648" (2^31), "1 -2147483648"
\* (the least int) and "1 -2147483647", each with its NUL
P_SPD_WIDE == <<49, 32, 52, 50, 57, 52, 57, 54, 55, 51, 52, 54, 0>>
P_SPD_2P31 == <<49, 32, 50, 49, 52, 55, 52, 56, 51, 54, 52, 56, 0>>
P_SPD_INT_MIN == <<49, 32, 45, 50, 49, 52, 55, 52, 56, 51, 54, 52, 56, 0>>
P_SPD_NEAR_MIN == <<49, 32, 45, 50, 49, 52, 55, 52, 56, 51, 54, 52, 55, 0>>

\* payloads longer than BUF_SIZE: "0 ujhk", 58 times 'x', then "kl" as bytes
\* 65 and 66; and "1 ", 61 times '0', '7' as byte 64, then '9' and NUL
P_LONG_MAP == <<48, 32, 117, 106, 104, 107>> \o [i \in 1..58 |-> 120] \o <<107, 108>>
P_LONG_SPD == <<49, 32>> \o [i \in 1..61 |-> 48] \o <<55, 57, 0>>

ConfigPayloads == {P_MAP_UJHK, P_SPD_50, P_SPD_50_NUL, P_MAP_UUUU, P_MAP_UUHK}
AllPayloads == {P_MAP_UJHK, P_SPD_50, P_SPD_50_NUL, P_MAP_UUUU, P_MAP_SHORT,
                P_MAP_1BYTE, P_SPD_ALPHA, P_SPD_ALPHA_NUL, P_SPD_SIGN,
                P_SPD_NEG7_NUL, P_BADCMD, P_MAP_EDSFKL}

\* writes of more than BUF_SIZE bytes, next to short ones
LongPayloads == {P_LONG_MAP, P_LONG_SPD, P_SPD_50_NUL, P_MAP_SHORT, P_BADCMD}

(***************************************************************************)
(* Resources of bring-up and unload.                                       *)
(***************************************************************************)
Range(s) == {s[i] : i \in 1..Len(s)}
Holds(r) == r \in Range(held) /\ r \notin Range(rel)

\* the handler is on the IRQ line between request_irq and free_irq
IrqRegistered == Holds("irq")

\* mouse_tasklet is NULL until step 10 of vdev_init
TaskletReady == "tasklet" \in Range(held)

\* spd is a 32-bit int (struct vdev).  -data->spd is computed in that width:
\* the kernel is built with -fno-strict-overflow, so negating the least int
\* wraps around to the least int
INT_MIN == -2147483647 - 1

negate(s) == IF s = INT_MIN THEN INT_MIN ELSE -s

\* what mouse_dev points to
DevState ==
  IF "input_dev" \notin Range(held) THEN "null"
  ELSE IF "input_dev" \in Range(rel) THEN "freed"
  ELSE IF "input_reg" \in Range(rel) THEN "unregistered"
  ELSE IF "input_reg" \in Range(held) THEN "registered"
  ELSE "allocated"

mouse_tasklet_handler_every_match(b, m, s) ==
  IF b[0] # SCANCODE_LALT_MASK THEN <<>>
  ELSE LET ch == scancode_to_ascii(b[1])
       IN  (IF ch = m[0] THEN <<input_report_rel("REL_Y", negate(s)), input_sync>> ELSE <<>>)
           \o (IF ch = m[1] THEN <<input_report_rel("REL_Y", s), input_sync>> ELSE <<>>)
           \o (IF ch = m[2] THEN <<input_report_rel("REL_X", negate(s)), input_sync>> ELSE <<>>)
           \o (IF ch = m[3] THEN <<input_report_rel("REL_X", s), input_sync>> ELSE <<>>)

(***************************************************************************)
(* Bottom half: mouse_tasklet_handler.  The result is the sequence of      *)
(* events it reports, for the buf, map and spd it reads.                   *)
(***************************************************************************)
mouse_tasklet_handler_nomod(b, m, s) ==
  LET ch == scancode_to_ascii(b[1])
  IN  IF ch = m[0] THEN <<input_report_rel("REL_Y", negate(s)), input_sync>>
      ELSE IF ch = m[1] THEN <<input_report_rel("REL_Y", s), input_sync>>
      ELSE IF ch = m[2] THEN <<input_report_rel("REL_X", negate(s)), input_sync>>
      ELSE IF ch = m[3] THEN <<input_report_rel("REL_X", s), input_sync>>
      ELSE <<>>

mouse_tasklet_handler(b, m, s) ==
  IF b[0] = SCANCODE_LALT_MASK
  THEN LET ch == scancode_to_ascii(b[1])
       IN  IF ch = m[0] THEN <<input_report_rel("REL_Y", negate(s)), input_sync>>
           ELSE IF ch = m[1] THEN <<input_report_rel("REL_Y", s), input_sync>>
           ELSE IF ch = m[2] THEN <<input_report_rel("REL_X", negate(s)), input_sync>>
           ELSE IF ch = m[3] THEN <<input_report_rel("REL_X", s), input_sync>>
           ELSE <<>>
  ELSE <<>>

(***************************************************************************)
(* Top half: put_scancode and kbd_interrupt_handler.                       *)
(***************************************************************************)
put_scancode_noshift(b, m, sc) == Arr2(b[0], sc)

put_scancode_nolatch(b, m, sc) == Arr2(b[1], sc)

put_scancode_novalve(b, m, sc) ==
  Arr2(IF b[0] # SCANCODE_LALT_MASK THEN b[1] ELSE b[0], sc)

put_scancode(b, m, sc) ==
  LET ch == scancode_to_ascii(sc)
  IN  Arr2(IF b[0] # SCANCODE_LALT_MASK
              \/ (ch = m[0] /\ ch = m[1] /\ ch = m[2] /\ ch = m[3])
           THEN b[1] ELSE b[0],
           sc)

NoWrite == [user |-> <<>>, io |-> "ok"]

\* the execution units that can take the keyboard interrupt
CPUs == {1, 2}

\* an execution unit outside the handler; sc is its local variable
\* scancode, put tells that its put_scancode has returned
IdleCpu == [at |-> "idle", sc |-> 0, put |-> FALSE]

AllIdle == [c \in CPUs |-> IdleCpu]

\* the counters are kept only when on is set; MaxPress caps the presses
MaxPress == 3

NoCount == [on |-> FALSE, press |-> 0, calls |-> 0, run |-> 0, move |-> 0]

count(c, ev) == IF c.on THEN [c EXCEPT ![ev] = @ + 1] ELSE c

MayPress(c) == c.on => c.press < MaxPress

\* no tasklet run in progress.  A run in progress keeps what it has read
\* (b0 and b1 of buf, ch translated from b1, the index i into map it is
\* at) and, as history, the values buf[1] has held while buf[0] was b0
\* (seen) and the complete (map, spd) settings there have been (cfgs)
NoRun == [at |-> "idle", b0 |-> 0, b1 |-> 0, ch |-> 0, i |-> 0,
          seen |-> {}, cfgs |-> {}]

\* history kept for a run that is between its reads of buf[0] and buf[1]
see_pair(t, b) ==
  IF t.at = "read1" /\ b[0] = t.b0 THEN [t EXCEPT !.seen = @ \cup {b[1]}] ELSE t

\* history kept for a run in progress when a control write has returned
see_config(t, m, s) ==
  IF t.at # "idle" THEN [t EXCEPT !.cfgs = @ \cup {[map |-> m, spd |-> s]}] ELSE t

tasklet_action_keep(s) == s

\* tasklet_schedule sets TASKLET_STATE_SCHED (a tasklet already pending is
\* not queued twice); the softirq clears it before it calls the handler
tasklet_schedule(s) == TRUE

tasklet_action(s) == FALSE

irq_return_handled(pressed) == IF pressed THEN 1 ELSE IRQ_NONE

\* the handler's only return statement: return IRQ_NONE
irq_return(pressed) == IRQ_NONE

\* one interrupt: read the data port, record a press under the lock, schedule
\* the tasklet; tasklet_schedule(NULL) dereferences NULL
kbd_interrupt_handler ==
  /\ fault = "none"
  /\ IrqRegistered
  /\ \E sc \in Scancodes :
       /\ scancode' = sc
       /\ IF is_key_pressed(sc)
          THEN /\ MayPress(cnt)
               /\ buf' = put_scancode(buf, map, sc)
               /\ hist' = <<hist[2], sc>>
               /\ IF TaskletReady
                  THEN /\ sched' = tasklet_schedule(sched)
                       /\ fault' = fault
                       /\ cnt' = count(count(cnt, "press"), "calls")
                  ELSE /\ sched' = sched
                       /\ fault' = "tasklet_schedule(NULL)"
                       /\ cnt' = count(cnt, "press")
          ELSE UNCHANGED <<buf, hist, sched, fault, cnt>>
  /\ op' = "irq"
  /\ ret' = irq_return(is_key_pressed(scancode'))
  /\ out' = <<>>
  /\ wr' = NoWrite
  /\ buf0' = buf
  /\ UNCHANGED <<map, spd, pc, held, rel, req, cpu, lock, tsk>>

\* one run of the scheduled tasklet: the softirq clears TASKLET_STATE_SCHED
\* and calls mouse_tasklet_handler
mouse_tasklet_run ==
  /\ fault = "none"
  /\ sched
  /\ sched' = tasklet_action(sched)
  /\ out' = mouse_tasklet_handler(buf, map, spd)
  /\ fault' = IF out' # <<>> /\ DevState \in {"null", "freed"}
              THEN "input_report_rel(" \o DevState \o ")" ELSE fault
  /\ op' = "tasklet"
  /\ ret' = 0
  /\ scancode' = 0
  /\ wr' = NoWrite
  /\ buf0' = buf
  /\ cnt' = IF out' # <<>> THEN count(count(cnt, "run"), "move")
             ELSE count(cnt, "run")
  /\ UNCHANGED <<buf, map, spd, pc, held, rel, hist, req, cpu, lock, tsk>>

(***************************************************************************)
(* Control write: vdev_write.                                              *)
(*                                                                         *)
(* buf = kmalloc(size) holds the first size bytes of the caller's payload  *)
(* and is not NUL-terminated; memcpy(.., buf + 2, 4) and kstrtol(buf + 2)  *)
(* read on behind it whatever the slab holds there (tail).                 *)
(***************************************************************************)
Min_second(a, b) == b

Min(a, b) == IF a < b THEN a ELSE b

\* the memory at buf, buf + 1, ...: the copied bytes, the slab bytes behind
\* them, then NUL
kmem(user, size, tail) ==
  SubSeq(user, 1, size) \o tail \o <<0, 0, 0, 0, 0, 0>>

\* the C string that starts at kmem[from] (1-based), without its NUL
cstring(mem, from) ==
  LET nul == CHOOSE k \in from..(Len(mem) + 1) :
               /\ k > Len(mem) \/ mem[k] = 0
               /\ \A j \in from..(k - 1) : mem[j] # 0
  IN  SubSeq(mem, from, nul - 1)

IsDigit(c) == c >= 48 /\ c <= 57

\* _parse_integer: the number of leading digits of s, and their value
ndigits(s) ==
  CHOOSE n \in 0..Len(s) :
    /\ n = Len(s) \/ ~IsDigit(s[n + 1])
    /\ \A j \in 1..n : IsDigit(s[j])

\* the accumulator stays 0 over leading zeros, so the loop is entered at the
\* first digit that is not '0'
nzeros(s) ==
  CHOOSE n \in 0..Len(s) :
    /\ n = Len(s) \/ s[n + 1] # 48
    /\ \A j \in 1..n : s[j] = 48

\* a long is kept as four 16-bit limbs, lowest first, so that no
\* intermediate value leaves the range of the model's integers
LimbBase == 65536

\* one round of the loop of _parse_integer: acc = acc * 10 + d
times10plus(acc, d) ==
  LET t0 == acc[1] * 10 + d
      t1 == acc[2] * 10 + (t0 \div LimbBase)
      t2 == acc[3] * 10 + (t1 \div LimbBase)
      t3 == acc[4] * 10 + (t2 \div LimbBase)
  IN  <<t0 % LimbBase, t1 % LimbBase, t2 % LimbBase, t3 % LimbBase>>

RECURSIVE parse_digits(_, _)
parse_digits(s, acc) ==
  IF s # <<>> /\ IsDigit(s[1]) THEN parse_digits(Tail(s), times10plus(acc, s[1] - 48))
  ELSE acc

decval(s, acc) == parse_digits(SubSeq(s, nzeros(s) + 1, Len(s)), acc)

\* the two's complement of a long: -tmp
negate64(l) ==
  LET t0 == (LimbBase - 1 - l[1]) + 1
      t1 == (LimbBase - 1 - l[2]) + (t0 \div LimbBase)
      t2 == (LimbBase - 1 - l[3]) + (t1 \div LimbBase)
      t3 == (LimbBase - 1 - l[4]) + (t2 \div LimbBase)
  IN  <<t0 % LimbBase, t1 % LimbBase, t2 % LimbBase, t3 % LimbBase>>

\* two limbs read as a signed 32-bit word
word32(lo, hi) ==
  IF hi >= LimbBase \div 2 THEN (hi - LimbBase) * LimbBase + lo ELSE hi * LimbBase + lo

\* the digits of LLONG_MAX = 9223372036854775807 and of 2^63, the largest
\* magnitudes kstrtoll accepts without and with a minus sign
LLONG_MAX_DIGITS == <<57, 50, 50, 51, 51, 55, 50, 48, 51, 54, 56, 53, 52, 55, 55, 53, 56, 48, 55>>
LLONG_MIN_DIGITS == <<57, 50, 50, 51, 51, 55, 50, 48, 51, 54, 56, 53, 52, 55, 55, 53, 56, 48, 56>>

\* digit strings without leading zeros: d is a larger number than limit
exceeds(d, limit) ==
  \/ Len(d) > Len(limit)
  \/ /\ Len(d) = Len(limit)
     /\ \E k \in 1..Len(d) : d[k] > limit[k] /\ \A j \in 1..(k - 1) : d[j] = limit[j]

(***************************************************************************)
(* kstrtol(s, 10, res) of the kernel library (long is 64 bits wide): an    *)
(* optional sign, at least one digit, an optional single newline, then    *)
(* the NUL; anything else is -EINVAL, a value outside the range of long   *)
(* is -ERANGE, and both leave *res alone.  Of the long that is stored,    *)
(* val is the low 32-bit word and high the high 32-bit word, each read as *)
(* a signed int.                                                          *)
(***************************************************************************)
kstrtol(s) ==
  LET neg    == s # <<>> /\ s[1] = 45
      signed == IF neg THEN Tail(s) ELSE s
      plus   == signed # <<>> /\ signed[1] = 43
      body   == IF plus THEN Tail(signed) ELSE signed
      n      == ndigits(body)
      rest   == SubSeq(body, n + 1, Len(body))
      end    == IF rest # <<>> /\ rest[1] = CH_NEWLINE THEN Tail(rest) ELSE rest
      digits == SubSeq(body, nzeros(body) + 1, n)
      tmp    == decval(digits, <<0, 0, 0, 0>>)
      v      == IF neg THEN negate64(tmp) ELSE tmp
  IN  IF n = 0 \/ end # <<>> THEN [rc |-> -EINVAL, val |-> 0, high |-> 0]
      ELSE IF exceeds(digits, IF neg THEN LLONG_MIN_DIGITS ELSE LLONG_MAX_DIGITS)
      THEN [rc |-> -ERANGE, val |-> 0, high |-> 0]
      ELSE [rc |-> 0, val |-> word32(v[1], v[2]), high |-> word32(v[3], v[4])]

write_map_from_separator(m, mem) == Arr4(mem[2], mem[3], mem[4], mem[5])

\* case CMD_MAP: memcpy(&data->map, buf + 2, 4)
write_map(m, mem) == Arr4(mem[3], mem[4], mem[5], mem[6])

\* case CMD_SPD: kstrtol(buf + 2, 10, (long int*)&data->spd).  The long is
\* stored at the address of the int spd: on the little-endian machines that
\* have the i8042 ports its low word lands in spd, its high word in the
\* four bytes behind spd
write_spd(s, mem) ==
  LET r == kstrtol(cstring(mem, 3)) IN IF r.rc = 0 THEN r.val ELSE s

\* cmd = buf[0] - '0'
write_cmd(mem) == mem[1] - 48

\* what vdev_write returns: -EFAULT when kmalloc or copy_from_user failed,
\* else size
write_ret_size(io, size) == size

write_ret(io, size) == IF io # "ok" THEN -EFAULT ELSE size

\* one write(fd, user, Len(user)); io says whether kmalloc fails ("nomem"),
\* copy_from_user fails ("fault") or both succeed ("ok")
vdev_write(payloads) ==
  /\ fault = "none"
  /\ Holds("cdev")
  /\ \E user \in payloads, io \in {"ok", "nomem", "fault"} :
       \E tail \in IF io = "ok" THEN Tails ELSE {[i \in 1..TailLen |-> 0]} :
         LET size == Min(BUF_SIZE, Len(user))
             mem  == kmem(user, size, tail)
             cmd  == write_cmd(mem)
         IN  /\ wr' = [user |-> user, io |-> io]
             /\ ret' = write_ret(io, size)
             /\ IF io # "ok"
                THEN UNCHANGED <<map, spd>>
                ELSE /\ map' = IF cmd = CMD_MAP THEN write_map(map, mem) ELSE map
                     /\ spd' = IF cmd = CMD_SPD THEN write_spd(spd, mem) ELSE spd
             /\ req' = IF io # "ok" THEN req
                       ELSE IF cmd = CMD_MAP THEN [req EXCEPT !.map = user]
                       ELSE IF cmd = CMD_SPD THEN [req EXCEPT !.spd = user]
                       ELSE req
  /\ op' = "write"
  /\ scancode' = 0
  /\ out' = <<>>
  /\ buf0' = buf
  /\ tsk' = see_config(tsk, map', spd')
  /\ UNCHANGED <<buf, sched, pc, held, rel, fault, hist, cnt, cpu, lock>>

(***************************************************************************)
(* The loaded driver: the state vdev_init leaves when every step succeeds, *)
(* then interrupts, tasklet runs and control writes in any order.          *)
(***************************************************************************)
InitOrder == <<"chrdev_region", "region_data", "region_status", "irq", "cdev",
               "class", "device", "input_dev", "input_reg", "tasklet">>

Init ==
  /\ buf = Arr2(0, 0)
  /\ map = Arr4(119, 115, 97, 100)
  /\ spd = DEFAULT_SPD
  /\ sched = FALSE
  /\ pc = <<"loaded", 0>>
  /\ held = InitOrder
  /\ rel = <<>>
  /\ fault = "none"
  /\ op = "none"
  /\ scancode = 0
  /\ wr = NoWrite
  /\ ret = 0
  /\ out = <<>>
  /\ hist = <<0, 0>>
  /\ buf0 = Arr2(0, 0)
  /\ req = [map |-> <<>>, spd |-> <<>>]
  /\ cnt = NoCount
  /\ cpu = AllIdle
  /\ lock = 0
  /\ tsk = NoRun

Next ==
  \/ kbd_interrupt_handler
  \/ mouse_tasklet_run
  \/ vdev_write(ConfigPayloads)

Spec == Init /\ [][Next]_vars

(***************************************************************************)
(* Vocabulary of the properties.                                           *)
(***************************************************************************)
IsPress(sc) == sc \in 0..127
Moves(o) == {k \in 1..Len(o) : o[k].type = "EV_REL"}
Degenerate(m) == m[0] = m[1] /\ m[1] = m[2] /\ m[2] = m[3]
Distinct4(m) == \A i, j \in 0..3 : i # j => m[i] # m[j]
IsDirectionKey(sc, m) == \E i \in 0..3 : scancode_to_ascii(sc) = m[i]

\* the movement of direction i (0 up, 1 down, 2 left, 3 right) at speed s,
\* with its synchronization marker
Movement(i, s) ==
  << [type |-> "EV_REL",
      code |-> IF i \in {0, 1} THEN "REL_Y" ELSE "REL_X",
      value |-> IF i \in {0, 2} THEN -s ELSE s],
     [type |-> "EV_SYN", code |-> "SYN_REPORT", value |-> 0] >>

\* the characters a MAP payload "0 cccc" asks for
PayloadMap(u) == [i \in 0..3 |-> u[i + 3]]

(***************************************************************************)
(* C1: a run of the tasklet reports a relative movement only if the        *)
(* previous key it read, buf[0], is the modifier 0x38 and the translation  *)
(* of the current key it read, buf[1], is one of the four mapped           *)
(* characters; when previous is not the modifier nothing is reported,      *)
(* whatever the second key is.                                             *)
(***************************************************************************)
C1_MoveOnlyAfterModifier ==
  (op = "tasklet" /\ Moves(out) # {})
    => (buf[0] = SCANCODE_LALT_MASK /\ IsDirectionKey(buf[1], map))

C1_Witness ==
  /\ op = "tasklet"
  /\ Moves(out) # {}
  /\ buf[0] = SCANCODE_LALT_MASK

(***************************************************************************)
(* C2: for every MAP payload m of four distinct characters and every       *)
(* direction i, after the modifier and then the key that translates to     *)
(* m[i] were pressed, the tasklet run reports exactly the movement of      *)
(* direction i at the current speed; and after the writes "0 ujhk" and     *)
(* "1 50", (modifier, 'u') reports (0, -50) and (modifier, 'k') (50, 0).   *)
(***************************************************************************)
C2_MapThenPressMoves ==
  (op = "tasklet" /\ hist[1] = SCANCODE_LALT_MASK /\ buf = Arr2(hist[1], hist[2]))
    => /\ (req.map # <<>> /\ Distinct4(PayloadMap(req.map)))
            => \A i \in 0..3 :
                 scancode_to_ascii(hist[2]) = PayloadMap(req.map)[i]
                   => out = Movement(i, spd)
       /\ (req.map = P_MAP_UJHK /\ req.spd = P_SPD_50)
            => /\ hist[2] = 22 => out = Movement(0, 50)
               /\ hist[2] = 37 => out = Movement(3, 50)

C14_AlwaysIrqNone == op = "irq" => ret = IRQ_NONE

\* a captured press of a direction key under the modifier, which left a
\* run pending, returned IRQ_NONE
C14_Witness ==
  /\ op = "irq" /\ IsPress(scancode) /\ sched
  /\ buf[0] = SCANCODE_LALT_MASK /\ IsDirectionKey(scancode, map)
  /\ ret = IRQ_NONE

\* the first direction, in the order up, down, left, right, mapped to ch
FirstMatch(ch, m) ==
  CHOOSE i \in 0..3 : m[i] = ch /\ \A j \in 0..(i - 1) : m[j] # ch

\* C15: a tasklet run reports at most one relative movement; when the
\* modifier is latched and the translated key is mapped, it reports the
\* movement of the first direction (up, down, left, right) mapped to that
\* character, followed by exactly one synchronization marker and nothing
\* else; otherwise it reports nothing, no marker either.
C15_OneMovementFirstMatch ==
  op = "tasklet"
    => LET ch == scancode_to_ascii(buf[1])
       IN  /\ Cardinality(Moves(out)) <= 1
           /\ IF buf[0] = SCANCODE_LALT_MASK /\ (\E i \in 0..3 : map[i] = ch)
              THEN out = Movement(FirstMatch(ch, map), spd)
              ELSE out = <<>>

\* a run for a character that is mapped to up and to down, and to nothing
\* else: it reported up, once, with one marker
C15_Witness ==
  /\ op = "tasklet"
  /\ map[0] = map[1] /\ map[2] # map[0]
  /\ buf[0] = SCANCODE_LALT_MASK /\ scancode_to_ascii(buf[1]) = map[1]
  /\ out = Movement(0, spd)

\* C19: an interrupt that reads a release scancode (bit 7 set) changes
\* neither the scancode pair nor the direction characters nor the speed,
\* and leaves the tasklet as it was, pending or not; in particular the
\* release of the modifier leaves the modifier in buf[0].
C19_ReleaseChangesNothing ==
  [][(op' = "irq" /\ ~IsPress(scancode'))
       => (buf' = buf /\ map' = map /\ spd' = spd /\ sched' = sched)]_vars

\* the modifier was released while it was latched and no run was pending:
\* it is still latched, and no run is pending
C19_Witness ==
  /\ op = "irq" /\ scancode = SCANCODE_LALT_MASK + SCANCODE_RELEASED_MASK
  /\ buf0[0] = SCANCODE_LALT_MASK /\ buf[0] = SCANCODE_LALT_MASK
  /\ ~sched

InitCount ==
  /\ buf = Arr2(0, 0)
  /\ map = Arr4(119, 115, 97, 100)
  /\ spd = DEFAULT_SPD
  /\ sched = FALSE
  /\ pc = <<"loaded", 0>>
  /\ held = InitOrder
  /\ rel = <<>>
  /\ fault = "none"
  /\ op = "none"
  /\ scancode = 0
  /\ wr = NoWrite
  /\ ret = 0
  /\ out = <<>>
  /\ hist = <<0, 0>>
  /\ buf0 = Arr2(0, 0)
  /\ req = [map |-> <<>>, spd |-> <<>>]
  /\ cnt = [NoCount EXCEPT !.on = TRUE]
  /\ cpu = AllIdle
  /\ lock = 0
  /\ tsk = NoRun

NextCount ==
  \/ kbd_interrupt_handler
  \/ mouse_tasklet_run

SpecCount == InitCount /\ [][NextCount]_vars

\* C16: every captured press calls tasklet_schedule exactly once, and the
\* calls made since the last run result in at most one run: the number of
\* calls equals the number of presses, a run is pending only if some press
\* has not been followed by a run, and neither the number of runs nor the
\* number of reported movements ever exceeds the number of presses.
C16_RunsBoundedByPresses ==
  /\ cnt.calls = cnt.press
  /\ cnt.run <= cnt.press
  /\ cnt.move <= cnt.run
  /\ sched => cnt.run < cnt.press

\* three presses, the last two coalesced into one pending run: two presses
\* behind, one run and one movement so far
C16_Witness ==
  /\ cnt.press = 3 /\ cnt.calls = 3
  /\ cnt.run = 1 /\ cnt.move = 1
  /\ sched

\* the scancodes delivered here: presses of left-alt, 'w' and 'u', release
\* of left-alt
SmpScancodes == {56, 17, 22, 184}

\* the steps leave the same record of the last step behind
irq_trace ==
  /\ op' = "irq"
  /\ scancode' = 0
  /\ out' = <<>>
  /\ wr' = NoWrite
  /\ buf0' = buf
  /\ tsk' = see_pair(tsk, buf')
  /\ UNCHANGED <<map, spd, pc, held, rel, fault, req, cnt>>

\* scancode = i8042_read_data(); pressed = is_key_pressed(scancode)
irq_enter(c) ==
  /\ fault = "none"
  /\ IrqRegistered /\ TaskletReady
  /\ cpu[c].at = "idle"
  /\ \E sc \in SmpScancodes :
       cpu' = [cpu EXCEPT ![c] = [at |-> IF is_key_pressed(sc) THEN "lock" ELSE "ret",
                                  sc |-> sc, put |-> FALSE]]
  /\ ret' = 0
  /\ UNCHANGED <<buf, hist, sched, lock>>
  /\ irq_trace

spin_lock_nowait(c) ==
  /\ cpu[c].at = "lock"
  /\ lock' = c
  /\ cpu' = [cpu EXCEPT ![c].at = "shift"]
  /\ ret' = 0
  /\ UNCHANGED <<buf, hist, sched>>
  /\ irq_trace

\* spin_lock(&data->lock): spins until the lock is free, then takes it
spin_lock(c) ==
  /\ cpu[c].at = "lock"
  /\ lock = 0
  /\ lock' = c
  /\ cpu' = [cpu EXCEPT ![c].at = "shift"]
  /\ ret' = 0
  /\ UNCHANGED <<buf, hist, sched>>
  /\ irq_trace

\* put_scancode, first store: if (...) data->buf[0] = data->buf[1]
put_shift(c) ==
  /\ cpu[c].at = "shift"
  /\ buf' = [buf EXCEPT ![0] = put_scancode(buf, map, cpu[c].sc)[0]]
  /\ cpu' = [cpu EXCEPT ![c].at = "store"]
  /\ ret' = 0
  /\ UNCHANGED <<hist, sched, lock>>
  /\ irq_trace

\* put_scancode, second store: data->buf[1] = scancode
put_store(c) ==
  /\ cpu[c].at = "store"
  /\ buf' = [buf EXCEPT ![1] = put_scancode(buf, map, cpu[c].sc)[1]]
  /\ hist' = <<hist[2], cpu[c].sc>>
  /\ cpu' = [cpu EXCEPT ![c].at = "unlock", ![c].put = TRUE]
  /\ ret' = 0
  /\ UNCHANGED <<sched, lock>>
  /\ irq_trace

\* spin_unlock(&data->lock)
spin_unlock(c) ==
  /\ cpu[c].at = "unlock"
  /\ lock' = 0
  /\ cpu' = [cpu EXCEPT ![c].at = "sched"]
  /\ ret' = 0
  /\ UNCHANGED <<buf, hist, sched>>
  /\ irq_trace

irq_schedule_skip(c) ==
  /\ cpu[c].at = "sched"
  /\ cpu' = [cpu EXCEPT ![c].at = "ret"]
  /\ ret' = 0
  /\ UNCHANGED <<buf, hist, sched, lock>>
  /\ irq_trace

\* tasklet_schedule(mouse_tasklet)
irq_schedule(c) ==
  /\ cpu[c].at = "sched"
  /\ sched' = tasklet_schedule(sched)
  /\ cpu' = [cpu EXCEPT ![c].at = "ret"]
  /\ ret' = 0
  /\ UNCHANGED <<buf, hist, lock>>
  /\ irq_trace

\* return IRQ_NONE
irq_exit(c) ==
  /\ cpu[c].at = "ret"
  /\ ret' = irq_return(is_key_pressed(cpu[c].sc))
  /\ cpu' = [cpu EXCEPT ![c] = IdleCpu]
  /\ UNCHANGED <<buf, hist, sched, lock>>
  /\ irq_trace

\* a unit inside the handler goes on to its next statement
irq_step(c) ==
  \/ put_shift(c)
  \/ put_store(c)
  \/ spin_unlock(c)
  \/ irq_schedule(c)
  \/ irq_exit(c)

NextSmp ==
  \/ \E c \in CPUs : irq_enter(c)
  \/ \E c \in CPUs : spin_lock(c)
  \/ \E c \in CPUs : put_shift(c)
  \/ \E c \in CPUs : put_store(c)
  \/ \E c \in CPUs : spin_unlock(c)
  \/ \E c \in CPUs : irq_schedule(c)
  \/ \E c \in CPUs : irq_exit(c)
  \/ mouse_tasklet_run

SpecSmp == Init /\ [][NextSmp]_vars

\* unit c is between its spin_lock and its spin_unlock
InUpdate(c) == cpu[c].at \in {"shift", "store", "unlock"}

\* C17: the scancode pair is written only by a unit that is inside the
\* handler and holds the lock; a unit is between spin_lock and spin_unlock
\* exactly when it holds the lock, so at most one unit is inside the
\* update at a time; and a unit that is about to call tasklet_schedule or
\* to return does not hold the lock.
C17_UpdateUnderLock ==
  /\ [](\A c \in CPUs :
         /\ InUpdate(c) <=> lock = c
         /\ \A d \in CPUs : (InUpdate(c) /\ InUpdate(d)) => c = d
         /\ cpu[c].at \in {"sched", "ret", "idle"} => lock # c)
  /\ [][buf' # buf => \E c \in CPUs : lock = c /\ lock' = c /\ InUpdate(c)]_vars

\* unit 1 is between the two stores of put_scancode, holding the lock,
\* while unit 2 has read a press and spins on the lock
C17_Witness ==
  /\ cpu[1].at = "store" /\ lock = 1
  /\ cpu[2].at = "lock"
  /\ buf[0] # buf0[0]

\* fair scheduling: a pending tasklet is run, a unit inside the handler
\* executes its next statement, and a unit spinning on the lock gets it
\* when it is released again and again
SpecSmpFair ==
  /\ SpecSmp
  /\ WF_vars(mouse_tasklet_run)
  /\ \A c \in CPUs : WF_vars(irq_step(c)) /\ SF_vars(spin_lock(c))

\* C18: under fair scheduling a unit that has captured a press completes
\* its update of the scancode pair and reaches tasklet_schedule, and from
\* there on a tasklet run takes place, which begins after that update;
\* tasklet_schedule is called only by a unit whose put_scancode has
\* returned.
C18_PressLeadsToRun ==
  /\ \A c \in CPUs : (cpu[c].at = "lock") ~> (cpu[c].at = "sched" /\ cpu[c].put)
  /\ \A c \in CPUs : (cpu[c].at = "sched") ~> (op = "tasklet")
  /\ [][\A c \in CPUs : (cpu[c].at = "sched" /\ cpu'[c].at = "ret")
                            => (cpu[c].put /\ lock # c)]_vars

\* a run that reported a movement right after unit 1, its update done,
\* had called tasklet_schedule
C18_Witness ==
  /\ op = "tasklet" /\ out # <<>>
  /\ cpu[1].at = "ret" /\ cpu[1].put
  /\ ~sched

(***************************************************************************)
(* mouse_tasklet_handler read by read: buf[0], buf[1], map[0] to map[3],  *)
(* spd.  The handler takes no lock, so the interrupt handler and control   *)
(* writes run between its reads; tasklet runs do not overlap each other.   *)
(***************************************************************************)
\* what every step of a run leaves behind
tasklet_trace ==
  /\ op' = "tasklet"
  /\ ret' = 0
  /\ scancode' = 0
  /\ wr' = NoWrite
  /\ buf0' = buf
  /\ UNCHANGED <<buf, map, spd, pc, held, rel, hist, req, cpu, lock>>

\* the event of branch i of the if / else-if chain, at speed s
report(i, s) ==
  << input_report_rel(IF i \in {0, 1} THEN "REL_Y" ELSE "REL_X",
                      IF i \in {0, 2} THEN negate(s) ELSE s),
     input_sync >>

\* the softirq clears TASKLET_STATE_SCHED and calls the handler, which
\* reads data->buf[0] and returns if it is not the modifier
tasklet_read0 ==
  /\ fault = "none"
  /\ sched
  /\ tsk.at = "idle"
  /\ sched' = tasklet_action(sched)
  /\ tsk' = IF buf[0] = SCANCODE_LALT_MASK
            THEN [NoRun EXCEPT !.at = "read1", !.b0 = buf[0], !.seen = {buf[1]},
                               !.cfgs = {[map |-> map, spd |-> spd]}]
            ELSE NoRun
  /\ out' = <<>>
  /\ cnt' = count(cnt, "run")
  /\ fault' = fault
  /\ tasklet_trace

\* ch = scancode_to_ascii(data->buf[1])
tasklet_read1 ==
  /\ tsk.at = "read1"
  /\ tsk' = [tsk EXCEPT !.at = "match", !.b1 = buf[1],
                        !.ch = scancode_to_ascii(buf[1]), !.i = 0]
  /\ out' = <<>>
  /\ UNCHANGED <<sched, cnt, fault>>
  /\ tasklet_trace

\* if (ch == data->map[i]) ... else if: the next comparison of the chain
tasklet_match ==
  /\ tsk.at = "match"
  /\ tsk' = IF tsk.ch = map[tsk.i] THEN [tsk EXCEPT !.at = "emit"]
            ELSE IF tsk.i < 3 THEN [tsk EXCEPT !.i = @ + 1]
            ELSE NoRun
  /\ out' = <<>>
  /\ UNCHANGED <<sched, cnt, fault>>
  /\ tasklet_trace

\* input_report_rel(mouse_dev, axis, +/- data->spd); input_sync(mouse_dev)
tasklet_emit ==
  /\ tsk.at = "emit"
  /\ tsk' = NoRun
  /\ out' = report(tsk.i, spd)
  /\ cnt' = count(cnt, "move")
  /\ fault' = IF DevState \in {"null", "freed"}
              THEN "input_report_rel(" \o DevState \o ")" ELSE fault
  /\ sched' = sched
  /\ tasklet_trace

\* runs next to the interrupt handler of one execution unit, and a write
\* that makes the map degenerate
TornPayloads == {P_MAP_UUUU}

NextTorn ==
  \/ irq_enter(1)
  \/ spin_lock(1)
  \/ put_shift(1)
  \/ put_store(1)
  \/ spin_unlock(1)
  \/ irq_schedule(1)
  \/ irq_exit(1)
  \/ tasklet_read0
  \/ tasklet_read1
  \/ tasklet_match
  \/ tasklet_emit
  \/ vdev_write(TornPayloads)

SpecTorn == Init /\ [][NextTorn]_vars

\* runs next to whole interrupts and a write that changes the map
MixPayloads == {P_MAP_UUHK}

NextMix ==
  \/ kbd_interrupt_handler
  \/ tasklet_read0
  \/ tasklet_read1
  \/ tasklet_match
  \/ tasklet_emit
  \/ vdev_write(MixPayloads)

SpecMix == Init /\ [][NextMix]_vars

\* a run returns: it reports, or its last comparison fails
RunEnds == tsk.at \in {"match", "emit"} /\ tsk'.at = "idle"

\* C21: a movement that a run reports is reported for a pair (buf[0],
\* buf[1]) that the buffer held at one instant of that run: the value read
\* from buf[1] is one that buf[1] held while buf[0] still was the value
\* read from it.
C21_MovementForPairHeld ==
  [][(tsk.at = "emit" /\ tsk'.at = "idle") => tsk.b1 \in tsk.seen]_vars

\* C22: what a run reports, or that it reports nothing, is what
\* mouse_tasklet_handler gives for the pair read under one complete
\* setting of (map, spd): the one at the start of the run or one that a
\* control write left during the run.
C22_EventOfOneConfig ==
  [][RunEnds => \E c \in tsk.cfgs :
                  out' = mouse_tasklet_handler(Arr2(tsk.b0, tsk.b1), c.map, c.spd)]_vars

(***************************************************************************)
(* The scancode table on its own: scancode_to_ascii applied to each of the *)
(* 256 byte values.                                                        *)
(***************************************************************************)
InitTable ==
  /\ scancode \in 0..255
  /\ op = "none"
  /\ ret = 0
  /\ buf = Arr2(0, 0)
  /\ map = Arr4(119, 115, 97, 100)
  /\ spd = DEFAULT_SPD
  /\ sched = FALSE
  /\ pc = <<"loaded", 0>>
  /\ held = InitOrder
  /\ rel = <<>>
  /\ fault = "none"
  /\ wr = NoWrite
  /\ out = <<>>
  /\ hist = <<0, 0>>
  /\ buf0 = Arr2(0, 0)
  /\ req = [map |-> <<>>, spd |-> <<>>]
  /\ cnt = NoCount
  /\ cpu = AllIdle
  /\ lock = 0
  /\ tsk = NoRun

translate ==
  /\ op = "none"
  /\ op' = "translate"
  /\ ret' = scancode_to_ascii(scancode)
  /\ UNCHANGED <<buf, map, spd, sched, pc, held, rel, fault, scancode, wr, out,
                 hist, buf0, req, cnt, cpu, lock, tsk>>

SpecTable == InitTable /\ [][translate]_vars

(***************************************************************************)
(* C6: translate is total over the 256 byte values and ignores the release *)
(* bit: low-7-bit codes 0x02-0x0b give "1234567890", 0x10-0x19             *)
(* "qwertyuiop", 0x1e-0x26 "asdfghjkl", 0x2c-0x32 "zxcvbnm" (by offset in  *)
(* the range), 0x39 space, 0x1c newline, every other code '?'.             *)
(***************************************************************************)
KeyTable ==
  [c \in 0..127 |->
     CASE c = 2 -> 49 [] c = 3 -> 50 [] c = 4 -> 51 [] c = 5 -> 52 [] c = 6 -> 53
       [] c = 7 -> 54 [] c = 8 -> 55 [] c = 9 -> 56 [] c = 10 -> 57 [] c = 11 -> 48
       [] c = 16 -> 113 [] c = 17 -> 119 [] c = 18 -> 101 [] c = 19 -> 114
       [] c = 20 -> 116 [] c = 21 -> 121 [] c = 22 -> 117 [] c = 23 -> 105
       [] c = 24 -> 111 [] c = 25 -> 112
       [] c = 30 -> 97 [] c = 31 -> 115 [] c = 32 -> 100 [] c = 33 -> 102
       [] c = 34 -> 103 [] c = 35 -> 104 [] c = 36 -> 106 [] c = 37 -> 107
       [] c = 38 -> 108
       [] c = 44 -> 122 [] c = 45 -> 120 [] c = 46 -> 99 [] c = 47 -> 118
       [] c = 48 -> 98 [] c = 49 -> 110 [] c = 50 -> 109
       [] c = 57 -> 32
       [] c = 28 -> 10
       [] OTHER -> 63]

C6_TranslateTable ==
  op = "translate" => ret = KeyTable[scancode % 128]

\* the release of 'u' (0x96) translates like its press
C6_Witness ==
  /\ op = "translate"
  /\ scancode = 150
  /\ ret = 117

(***************************************************************************)
(* The control surface on its own: any sequence of control writes to the   *)
(* loaded driver, well-formed and malformed.                               *)
(***************************************************************************)
NextWrite == vdev_write(AllPayloads)

SpecWrite == Init /\ [][NextWrite]_vars

\* the payload of a control write: the bytes behind the digit and the separator
PayloadData(u) == SubSeq(u, 3, Len(u))

\* a write too short for its command: fewer than 2 bytes, or a MAP with fewer
\* than 4 payload bytes
TooShort(u) == Len(u) < 2 \/ (u[1] = 48 /\ Len(PayloadData(u)) < 4)

\* the payload of u is a base-10 signed integer (the grammar of kstrtol)
ParsesAsInteger(u) == kstrtol(cstring(PayloadData(u) \o <<0>>, 1)).rc = 0

(***************************************************************************)
(* C9: a control write that is too short (a MAP with fewer than 4 payload  *)
(* bytes, or a write of fewer than 2 bytes) is a no-op: mapping and speed  *)
(* are unchanged and no failure is returned.                               *)
(***************************************************************************)
C9_ShortWriteIsNoOp ==
  [][(op' = "write" /\ wr'.io = "ok" /\ TooShort(wr'.user))
       => (map' = map /\ spd' = spd /\ ret' >= 0)]_vars

(***************************************************************************)
(* C10: an SPD write whose payload does not parse as a base-10 signed      *)
(* integer leaves speed and mapping unchanged and returns the consumed     *)
(* byte count.                                                             *)
(***************************************************************************)
C10_BadSpeedIsIgnored ==
  [][(/\ op' = "write" /\ wr'.io = "ok"
      /\ Len(wr'.user) >= 2 /\ wr'.user[1] = 49
      /\ ~ParsesAsInteger(wr'.user))
       => (spd' = spd /\ map' = map /\ ret' = Min(BUF_SIZE, Len(wr'.user)))]_vars

\* well-formed and malformed writes that carry their four map characters
FramePayloads == {P_MAP_EDSFKL, P_MAP_UJHK, P_SPD_50, P_SPD_50_NUL, P_SPD_ALPHA,
                  P_BADCMD}

NextFrame == vdev_write(FramePayloads)

SpecFrame == Init /\ [][NextFrame]_vars

\* C11: a MAP write carrying at least four payload bytes makes the four
\* direction characters equal to its first four payload bytes, whatever
\* follows them, and leaves the speed alone; a SPD write leaves the four
\* direction characters alone; a write whose first byte is neither '0' nor
\* '1' changes neither the direction characters nor the speed.
C11_CommandFrames ==
  [][(op' = "write" /\ wr'.io = "ok")
       => LET u == wr'.user
          IN  /\ (u[1] = 48 /\ Len(PayloadData(u)) >= 4)
                   => (map' = PayloadMap(u) /\ spd' = spd)
              /\ u[1] = 49 => map' = map
              /\ u[1] \notin {48, 49} => (map' = map /\ spd' = spd)]_vars

\* the write "0 edsfkl" after a speed change: the map is "edsf", the bytes
\* "kl" are dropped and the changed speed is still there
C11_Witness ==
  /\ op = "write" /\ wr = [user |-> P_MAP_EDSFKL, io |-> "ok"]
  /\ map = Arr4(101, 100, 115, 102)
  /\ spd = 50

\* C12: a write whose buffer cannot be allocated, or whose payload cannot
\* be copied from the caller, returns -EFAULT and changes neither the
\* direction characters nor the speed.
C12_FailedWriteChangesNothing ==
  [][(op' = "write" /\ wr'.io # "ok")
       => (ret' = -EFAULT /\ map' = map /\ spd' = spd)]_vars

\* a MAP write that would have changed the map, refused at copy_from_user
C12_Witness ==
  /\ op = "write" /\ wr = [user |-> P_MAP_UJHK, io |-> "fault"]
  /\ ret = -EFAULT
  /\ map # PayloadMap(P_MAP_UJHK)

NextLong == vdev_write(LongPayloads)

SpecLong == Init /\ [][NextLong]_vars

\* the first BUF_SIZE bytes of a payload, all that copy_from_user fetches
Fetched(u) == SubSeq(u, 1, IF Len(u) > BUF_SIZE THEN BUF_SIZE ELSE Len(u))

\* what the write of the first BUF_SIZE bytes of u can read behind the
\* command byte: the four bytes at buf + 2, and the result of kstrtol on
\* the string at buf + 2, for each content of the memory behind the buffer
FetchedEffects ==
  [u \in LongPayloads |->
     {LET mem == kmem(Fetched(u), Len(Fetched(u)), tail)
      IN  [map |-> [i \in 0..3 |-> mem[i + 3]], num |-> kstrtol(cstring(mem, 3))] :
      tail \in Tails}]

\* C13: a write that does not fault returns the smaller of its byte count
\* and 64, whatever its command and however malformed it is, and its
\* effect on the direction characters and the speed is an effect that the
\* write of its first 64 bytes alone can have.
C13_ReturnsSizeAndReadsAtMost64 ==
  [][(op' = "write" /\ wr'.io = "ok")
       => LET u == wr'.user
          IN  /\ ret' = IF Len(u) > BUF_SIZE THEN BUF_SIZE ELSE Len(u)
              /\ \E e \in FetchedEffects[u] :
                   /\ map' = IF u[1] = 48 THEN e.map ELSE map
                   /\ spd' = IF u[1] = 49 /\ e.num.rc = 0 THEN e.num.val
                             ELSE spd]_vars

\* the 67-byte SPD write whose digits end with '7' at byte 64 and go on
\* with '9' at byte 65: 64 is returned and the speed is 7, not 79
C13_Witness ==
  /\ op = "write" /\ wr = [user |-> P_LONG_SPD, io |-> "ok"]
  /\ ret = BUF_SIZE
  /\ spd = 7

(***************************************************************************)
(* Bring-up and unload: vdev_init and vdev_exit, one acquisition or        *)
(* release per step, with interrupts and tasklet runs in between.          *)
(***************************************************************************)
\* the acquisitions of vdev_init in order, each with the label it jumps to
\* when it fails; the defaults of step 3 are set right before request_irq
InitSteps ==
  << [res |-> "chrdev_region", onfail |-> "out",                         defaults |-> FALSE],
     [res |-> "region_data",   onfail |-> "out_unregister",              defaults |-> FALSE],
     [res |-> "region_status", onfail |-> "out_unregister",              defaults |-> FALSE],
     [res |-> "irq",           onfail |-> "out_release_regions",         defaults |-> TRUE],
     [res |-> "cdev",          onfail |-> "out_release_regions",         defaults |-> FALSE],
     [res |-> "class",         onfail |-> "out_cdev_del",                defaults |-> FALSE],
     [res |-> "device",        onfail |-> "out_class_destroy",           defaults |-> FALSE],
     [res |-> "input_dev",     onfail |-> "out_device_destroy",          defaults |-> FALSE],
     [res |-> "input_reg",     onfail |-> "out_input_free_device",       defaults |-> FALSE],
     [res |-> "tasklet",       onfail |-> "out_input_unregister_device", defaults |-> FALSE] >>

\* the labels at the end of vdev_init, in the order control falls through
\* them, each with what it releases
UnwindLabels ==
  << [label |-> "out_input_unregister_device", releases |-> <<"input_reg">>],
     [label |-> "out_input_free_device",       releases |-> <<"input_dev">>],
     [label |-> "out_device_destroy",          releases |-> <<"device">>],
     [label |-> "out_class_destroy",           releases |-> <<"class">>],
     [label |-> "out_cdev_del",                releases |-> <<"cdev">>],
     [label |-> "out_release_regions",         releases |-> <<"region_status", "region_data">>],
     [label |-> "out_unregister",              releases |-> <<"chrdev_region">>],
     [label |-> "out",                         releases |-> <<>>] >>

RECURSIVE fallthrough(_)
fallthrough(i) ==
  IF i > Len(UnwindLabels) THEN <<>>
  ELSE UnwindLabels[i].releases \o fallthrough(i + 1)

\* goto label: what is released from there to the return
unwind(label) ==
  fallthrough(CHOOSE i \in 1..Len(UnwindLabels) : UnwindLabels[i].label = label)

\* the releases of vdev_exit in order
ExitOrder == <<"cdev", "irq", "region_status", "region_data", "chrdev_region",
               "device", "class", "input_reg", "input_dev">>

InitLife ==
  /\ buf = Arr2(0, 0)
  /\ map = Arr4(0, 0, 0, 0)
  /\ spd = 0
  /\ sched = FALSE
  /\ pc = <<"init", 1>>
  /\ held = <<>>
  /\ rel = <<>>
  /\ fault = "none"
  /\ op = "none"
  /\ scancode = 0
  /\ wr = NoWrite
  /\ ret = 0
  /\ out = <<>>
  /\ hist = <<0, 0>>
  /\ buf0 = Arr2(0, 0)
  /\ req = [map |-> <<>>, spd |-> <<>>]
  /\ cnt = NoCount
  /\ cpu = AllIdle
  /\ lock = 0
  /\ tsk = NoRun

\* the next acquisition of vdev_init: it succeeds, or it fails and vdev_init
\* unwinds from the step's label and returns the error
vdev_init_step ==
  /\ fault = "none"
  /\ pc[1] = "init"
  /\ LET st == InitSteps[pc[2]]
     IN  /\ IF st.defaults
            THEN map' = Arr4(119, 115, 97, 100) /\ spd' = DEFAULT_SPD
            ELSE UNCHANGED <<map, spd>>
         /\ \E ok \in BOOLEAN :
              IF ok
              THEN /\ held' = Append(held, st.res)
                   /\ rel' = rel
                   /\ pc' = IF pc[2] = Len(InitSteps) THEN <<"loaded", 0>>
                            ELSE <<"init", pc[2] + 1>>
                   /\ ret' = 0
              ELSE /\ held' = held
                   /\ rel' = rel \o unwind(st.onfail)
                   /\ pc' = <<"failed", pc[2]>>
                   /\ ret' = -1
  /\ op' = "init"
  /\ scancode' = 0
  /\ wr' = NoWrite
  /\ out' = <<>>
  /\ buf0' = buf
  /\ UNCHANGED <<buf, sched, fault, hist, req, cnt, cpu, lock, tsk>>

\* the next release of vdev_exit
vdev_exit_step ==
  /\ fault = "none"
  /\ pc[1] \in {"loaded", "exit"}
  /\ LET k == IF pc[1] = "loaded" THEN 1 ELSE pc[2]
     IN  /\ rel' = Append(rel, ExitOrder[k])
         /\ pc' = IF k = Len(ExitOrder) THEN <<"unloaded", 0>> ELSE <<"exit", k + 1>>
  /\ op' = "exit"
  /\ scancode' = 0
  /\ wr' = NoWrite
  /\ ret' = 0
  /\ out' = <<>>
  /\ buf0' = buf
  /\ UNCHANGED <<buf, map, spd, sched, held, fault, hist, req, cnt, cpu, lock, tsk>>

NextLife ==
  \/ vdev_init_step
  \/ vdev_exit_step
  \/ kbd_interrupt_handler
  \/ mouse_tasklet_run

SpecLife == InitLife /\ [][NextLife]_vars

Reverse(q) == [i \in 1..Len(q) |-> q[Len(q) + 1 - i]]

(***************************************************************************)
(* C7: on unload the IRQ is freed first, then no tasklet run is pending or *)
(* executing, and only then is the pointer device released: once mouse_dev *)
(* is unregistered or freed the handler is off the IRQ line, no run is     *)
(* pending and none executes.                                              *)
(***************************************************************************)
C7_ShutdownOrder ==
  (pc[1] \in {"exit", "unloaded"} /\ DevState \in {"unregistered", "freed"})
    => (~IrqRegistered /\ ~sched /\ op # "tasklet")

(***************************************************************************)
(* C8: when a step of vdev_init fails, every resource acquired before it   *)
(* has been released exactly once, in reverse order of acquisition, when   *)
(* the error is returned.                                                  *)
(***************************************************************************)
C8_FailedInitUnwinds ==
  pc[1] = "failed" => rel = Reverse(held)

(***************************************************************************)
(* C20: while vdev_init is still running, the interrupt handler executes   *)
(* only when mouse_tasklet has been allocated and initialised and          *)
(* mouse_dev is a registered input device, so that a captured press calls  *)
(* tasklet_schedule on an initialised tasklet.                             *)
(***************************************************************************)
C20_CaptureOnlyWhenReady ==
  (pc[1] = "init" /\ op = "irq")
    => (TaskletReady /\ DevState = "registered" /\ fault = "none")

(***************************************************************************)
(* Speeds at the edge of the int: the loaded driver with SPD writes whose  *)
(* numbers lie inside and outside the range of a 32-bit int, a MAP write,  *)
(* presses and tasklet runs.                                               *)
(***************************************************************************)
SpeedPayloads == {P_SPD_50_NUL, P_SPD_NEG7_NUL, P_SPD_WIDE, P_SPD_2P31,
                  P_SPD_INT_MIN, P_SPD_NEAR_MIN, P_MAP_UJHK}

NextSpeed ==
  \/ kbd_interrupt_handler
  \/ mouse_tasklet_run
  \/ vdev_write(SpeedPayloads)

SpecSpeed == Init /\ [][NextSpeed]_vars

\* the payload is the text of a base-10 signed integer and its NUL
IsInteger(u) ==
  LET d == PayloadData(u)
      t == SubSeq(d, 1, Len(d) - 1)
      g == IF t # <<>> /\ t[1] = 45 THEN Tail(t) ELSE t
  IN  /\ Len(d) >= 2
      /\ d[Len(d)] = 0
      /\ g # <<>>
      /\ \A k \in 1..Len(g) : g[k] \in 48..57

\* an integer of any size as its sign and its digits without leading zeros
Canonical(neg, g) ==
  LET z == IF \A k \in 1..Len(g) : g[k] = 48 THEN Len(g) - 1
           ELSE (CHOOSE k \in 1..Len(g) : g[k] # 48 /\ \A j \in 1..(k - 1) : g[j] = 48) - 1
      m == SubSeq(g, z + 1, Len(g))
  IN  [neg |-> neg /\ m # <<48>>, digits |-> m]

\* the integer v an SPD payload spells
PayloadValue(u) ==
  LET d == PayloadData(u)
      t == SubSeq(d, 1, Len(d) - 1)
  IN  IF t[1] = 45 THEN Canonical(TRUE, Tail(t)) ELSE Canonical(FALSE, t)

RECURSIVE DigitsOf(_)
DigitsOf(n) == IF n < 10 THEN <<48 + n>> ELSE DigitsOf(n \div 10) \o <<48 + (n % 10)>>

\* the same form for a value of the model
Decimal(n) ==
  IF n = INT_MIN THEN [neg |-> TRUE, digits |-> <<50, 49, 52, 55, 52, 56, 51, 54, 52, 56>>]
  ELSE IF n < 0 THEN [neg |-> TRUE, digits |-> DigitsOf(-n)]
  ELSE [neg |-> FALSE, digits |-> DigitsOf(n)]

\* -v
Opposite(v) == IF v.digits = <<48>> THEN v ELSE [v EXCEPT !.neg = ~@]

\* C24: for every SPD payload that spells a base-10 signed integer v, the
\* write leaves the stored speed equal to v, and a movement reported while
\* that speed stands carries -v for up and left and +v for down and right,
\* also for v outside the range of a 32-bit int and for v the least int
C24_SpeedIsPayloadValue ==
  /\ [][(op' = "write" /\ wr'.io = "ok" /\ write_cmd(wr'.user) = CMD_SPD
           /\ IsInteger(wr'.user))
          => Decimal(spd') = PayloadValue(wr'.user)]_vars
  /\ []((op = "tasklet" /\ Moves(out) # {} /\ req.spd # <<>> /\ IsInteger(req.spd))
          => Decimal(out[1].value)
               = IF FirstMatch(scancode_to_ascii(buf[1]), map) \in {0, 2}
                 THEN Opposite(PayloadValue(req.spd))
                 ELSE PayloadValue(req.spd))

\* the part of C24 that the code does keep: the same, for v inside the
\* range of an int and above the least int
C24_InsideInt ==
  /\ [][(op' = "write" /\ wr'.io = "ok" /\ write_cmd(wr'.user) = CMD_SPD
           /\ wr'.user \in {P_SPD_50_NUL, P_SPD_NEG7_NUL, P_SPD_NEAR_MIN})
          => Decimal(spd') = PayloadValue(wr'.user)]_vars
  /\ []((op = "tasklet" /\ Moves(out) # {}
           /\ req.spd \in {P_SPD_50_NUL, P_SPD_NEG7_NUL, P_SPD_NEAR_MIN})
          => Decimal(out[1].value)
               = IF FirstMatch(scancode_to_ascii(buf[1]), map) \in {0, 2}
                 THEN Opposite(PayloadValue(req.spd))
                 ELSE PayloadValue(req.spd))

====
